---------------------------- MODULE Spec2Model ----------------------------
(***************************************************************************)
(* Digital Skeptic: the scrape endpoint (fetch, content extraction,        *)
(* generateAnalysis), the analyze endpoint (analyzeArticle) and the page   *)
(* component that calls the scrape endpoint.                               *)
(*                                                                         *)
(* A string is modelled as a sequence of chunks.  A chunk is a run of      *)
(* characters that the code never looks inside except through the          *)
(* substring, prefix and suffix tables below; a whitespace character and   *)
(* a punctuation character are chunks of their own.  The string denoted    *)
(* by a sequence is the concatenation of its chunks, so <<"amazing", ".">> *)
(* is the word "amazing." and <<"could", " ", "be">> is "could be".        *)
(***************************************************************************)
EXTENDS Integers, Sequences, FiniteSets, TLC

VARIABLES endpoint, pc, request, fetchOutcome, doc, title, content, scanned,
          analysis, response, fetches, extractions, analyses, responses,
          url, isAnalyzing, pageAnalysis, error, handlers, clicks, outcomes

\* the state of a route handler or of an analyzer call
routeVars == <<endpoint, pc, request, fetchOutcome, doc, title, content, scanned,
               analysis, response, fetches, extractions, analyses, responses>>

\* the state of the page component: its four useState cells, the calls of
\* handleAnalyze that are waiting on an await, and the calls made and ended
pageVars == <<url, isAnalyzing, pageAnalysis, error, handlers, clicks, outcomes>>

vars == <<routeVars, pageVars>>

-----------------------------------------------------------------------------
(* Bounds of the model *)

\* longest base word sequence of a generated body text
MaxBase == 3
\* a generated body text is its base once, or repeated MaxReps times
MaxReps == 4
\* most top-level elements of a fetched document
MaxBlocks == 2
\* most requests sent by the page component
MaxClicks == 2

-----------------------------------------------------------------------------
(* Strings as chunk sequences *)

RECURSIVE Rep(_, _)
Rep(s, n) == IF n = 0 THEN "" ELSE s \o Rep(s, n - 1)

\* unbroken runs of the letter x, used where only the length of a text matters
X49 == Rep("x", 49)
X50 == Rep("x", 50)
X101 == Rep("x", 101)
X1997 == Rep(X49, 40) \o Rep("x", 37)

\* \s of the regular expressions
WhiteSpace == {" ", "\n"}

\* [.!?] of the sentence split
SentenceEnd == {".", "!", "?"}

Max(a, b) == IF a > b THEN a ELSE b
Min(a, b) == IF a < b THEN a ELSE b

\* String.prototype.length
StrLen(t) ==
    LET RECURSIVE sum(_)
        sum(i) == IF i > Len(t) THEN 0 ELSE Len(t[i]) + sum(i + 1)
    IN sum(1)

\* String.prototype.toLowerCase on one chunk
Lower(c) ==
    CASE c = "Devastating" -> "devastating"
      [] c = "BREAKING" -> "breaking"
      [] c = "NASA" -> "nasa"
      [] c = "Economy" -> "economy"
      [] c = "COLLAPSES" -> "collapses"
      [] c = "Untitled" -> "untitled"
      [] c = "Article" -> "article"
      [] OTHER -> c

\* String.prototype.toUpperCase on one chunk
Upper(c) ==
    CASE c = "Economy" -> "ECONOMY"
      [] c = "markets" -> "MARKETS"
      [] c = "fall" -> "FALL"
      [] c = "Untitled" -> "UNTITLED"
      [] c = "Article" -> "ARTICLE"
      [] c = "amazing" -> "AMAZING"
      [] c = "might" -> "MIGHT"
      [] c = "be" -> "BE"
      [] OTHER -> c

toLowerCase(t) == [i \in DOMAIN t |-> Lower(t[i])]
toUpperCase(t) == [i \in DOMAIN t |-> Upper(t[i])]

\* the pairs <<c, w>> where the word w is a proper substring of the chunk c
ProperSubstring == { <<"sources", "source">> }

ChunkIncludes(c, w) == c = w \/ <<c, w>> \in ProperSubstring
ChunkEndsWith(c, w) == c = w
ChunkStartsWith(c, w) == c = w

\* String.prototype.includes: the needle n occurs in t at some offset.  The
\* first chunk of the needle may end a chunk of t and the last may start one.
Includes(t, n) ==
    IF Len(n) = 1
    THEN \E i \in DOMAIN t : ChunkIncludes(t[i], n[1])
    ELSE \E i \in 0..(Len(t) - Len(n)) :
            /\ ChunkEndsWith(t[i + 1], n[1])
            /\ ChunkStartsWith(t[i + Len(n)], n[Len(n)])
            /\ \A k \in 2..(Len(n) - 1) : t[i + k] = n[k]

\* /\d+/.test
HasDigit(t) == \E i \in DOMAIN t : t[i] \in {"42"}

\* String.prototype.trim
RECURSIVE TrimStart(_)
TrimStart(t) ==
    IF t # <<>> /\ Head(t) \in WhiteSpace THEN TrimStart(Tail(t)) ELSE t

RECURSIVE TrimEnd(_)
TrimEnd(t) ==
    IF t # <<>> /\ t[Len(t)] \in WhiteSpace
    THEN TrimEnd(SubSeq(t, 1, Len(t) - 1)) ELSE t

trim(t) == TrimEnd(TrimStart(t))

\* String.prototype.split on a regular expression Sep+ : the pieces between
\* the maximal runs of separator chunks, empty pieces at the ends included
Split(t, Sep) ==
    LET RECURSIVE go(_, _, _)
        go(i, cur, acc) ==
            IF i > Len(t) THEN Append(acc, cur)
            ELSE IF t[i] \in Sep
                 THEN IF i > 1 /\ t[i - 1] \in Sep
                      THEN go(i + 1, cur, acc)
                      ELSE go(i + 1, <<>>, Append(acc, cur))
                 ELSE go(i + 1, Append(cur, t[i]), acc)
    IN go(1, <<>>, <<>>)

\* String.prototype.replace(/\s+/g, " ")
RECURSIVE CollapseWhiteSpace(_)
CollapseWhiteSpace(t) ==
    IF t = <<>> THEN <<>>
    ELSE IF Head(t) \in WhiteSpace
         THEN <<" ">> \o CollapseWhiteSpace(TrimStart(t))
         ELSE <<Head(t)>> \o CollapseWhiteSpace(Tail(t))

\* Array.prototype.join
RECURSIVE join(_, _)
join(list, sep) ==
    IF list = <<>> THEN <<>>
    ELSE IF Len(list) = 1 THEN list[1]
    ELSE list[1] \o sep \o join(Tail(list), sep)

\* String.prototype.substring(0, n): the first n characters, all of the
\* text when it has fewer; the cut may fall inside a chunk
RECURSIVE substring(_, _)
substring(t, n) ==
    IF t = <<>> \/ n <= 0 THEN <<>>
    ELSE IF Len(Head(t)) > n THEN <<SubSeq(Head(t), 1, n)>>
    ELSE <<Head(t)>> \o substring(Tail(t), n - Len(Head(t)))

\* Array.prototype.slice(0, n)
slice(s, n) == SubSeq(s, 1, Min(n, Len(s)))

\* redFlags.push(x) under a condition
PushIf(s, cond, x) == IF cond THEN Append(s, x) ELSE s

-----------------------------------------------------------------------------
(* generateAnalysis of the scrape route *)

NoAnalysis == [none |-> TRUE]

ga_emotionalWords ==
    << <<"amazing">>, <<"terrible">>, <<"shocking">>, <<"incredible">>,
       <<"devastating">>, <<"outrageous">>, <<"fantastic">>, <<"horrible">> >>

ga_hedgingPhrases ==
    << <<"might">>, <<"could">>, <<"possibly">>, <<"perhaps">>,
       <<"allegedly">>, <<"reportedly">>, <<"seems", " ", "to">>,
       <<"appears", " ", "to">> >>

ga_words(c) == Split(toLowerCase(c), WhiteSpace)

ga_sentences(c) ==
    SelectSeq(Split(c, SentenceEnd), LAMBDA s : StrLen(trim(s)) > 0)

\* the tokens of the body that contain a term of the lexicon
ga_foundEmotionalWords(c) ==
    SelectSeq(ga_words(c),
              LAMBDA word : \E k \in DOMAIN ga_emotionalWords :
                                Includes(word, ga_emotionalWords[k]))

ga_foundHedging(c) ==
    SelectSeq(ga_hedgingPhrases, LAMBDA phrase : Includes(toLowerCase(c), phrase))

ga_coreClaims(c) ==
    LET long == SelectSeq(ga_sentences(c), LAMBDA s : StrLen(trim(s)) > 20)
        first == slice(long, 4)
    IN [i \in DOMAIN first |-> trim(first[i])]

ga_toneMoreThanTwo(nEmotional, nHedging) ==
    IF nEmotional > 2 /\ nHedging = 0 THEN "emotional"
    ELSE IF nHedging > 0 /\ nEmotional = 0 THEN "cautious"
    ELSE IF nEmotional > 0 /\ nHedging > 0 THEN "mixed"
    ELSE "neutral"

ga_tone(nEmotional, nHedging) ==
    LET hasEmotionalLanguage == nEmotional > 0
        hasHedging == nHedging > 0
    IN IF hasEmotionalLanguage /\ ~hasHedging THEN "emotional"
       ELSE IF hasHedging /\ ~hasEmotionalLanguage THEN "cautious"
       ELSE IF hasEmotionalLanguage /\ hasHedging THEN "mixed"
       ELSE "neutral"

ga_objectivity(nEmotional, nHedging) ==
    IF nEmotional = 0 /\ nHedging > 2 THEN "high"
    ELSE IF nEmotional > 3 THEN "low"
    ELSE "moderate"

ga_sensationalTitleBangOnly(t) == Includes(t, <<"!">>)

ga_sensationalTitle(t) == Includes(t, <<"!">>) \/ Includes(t, <<"BREAKING">>)

ga_redFlagsSourcesFirst(c, t) ==
    LET f1 == PushIf(<<>>, Len(ga_foundEmotionalWords(c)) > 3,
                     "Excessive use of emotional language")
        f2 == PushIf(f1, /\ ~Includes(c, <<"source">>)
                         /\ ~Includes(c, <<"study">>)
                         /\ ~Includes(c, <<"research">>),
                     "Lack of cited sources or references")
        f3 == PushIf(f2, Len(ga_sentences(c)) < 5,
                     "Very short article with limited information")
    IN PushIf(f3, ga_sensationalTitle(t), "Sensationalized headline")

ga_redFlags(c, t) ==
    LET f1 == PushIf(<<>>, Len(ga_foundEmotionalWords(c)) > 3,
                     "Excessive use of emotional language")
        f2 == PushIf(f1, Len(ga_sentences(c)) < 5,
                     "Very short article with limited information")
        f3 == PushIf(f2, /\ ~Includes(c, <<"source">>)
                         /\ ~Includes(c, <<"study">>)
                         /\ ~Includes(c, <<"research">>),
                     "Lack of cited sources or references")
    IN PushIf(f3, ga_sensationalTitle(t), "Sensationalized headline")

ClampWithoutFloor(x) == Min(100, x)

\* Math.max(0, Math.min(100, x))
Clamp(x) == Max(0, Min(100, x))

ga_credibilityScoreFlagsFive(nEmotional, nHedging, nRedFlags) ==
    Clamp(70 - nEmotional * 5 + nHedging * 3 - nRedFlags * 5)

ga_credibilityScore(nEmotional, nHedging, nRedFlags) ==
    Clamp(70 - nEmotional * 5 + nHedging * 3 - nRedFlags * 10)

ga_verificationQuestions ==
    << "What are the primary sources cited in this article?",
       "Can the main claims be verified through independent sources?",
       "What is the author's expertise and potential bias on this topic?",
       "Are there any conflicting reports or alternative perspectives mentioned?" >>

generateAnalysis(c, t) ==
    LET foundEmotionalWords == ga_foundEmotionalWords(c)
        foundHedging == ga_foundHedging(c)
        sentences == ga_sentences(c)
        redFlags == ga_redFlags(c, t)
        s1 == PushIf(<<>>, Len(foundHedging) > 0,
                     "Uses qualifying language showing appropriate caution")
        s2 == PushIf(s1, StrLen(c) > 500, "Provides substantial detail and context")
        strengths == PushIf(s2, Len(sentences) > 10, "Comprehensive coverage of the topic")
        w1 == PushIf(<<>>, Len(foundEmotionalWords) > 2,
                     "Contains emotionally charged language")
        w2 == PushIf(w1, Len(redFlags) > 0,
                     "Multiple red flags identified in content and presentation")
        weaknesses == PushIf(w2, StrLen(c) < 300, "Limited depth and detail in reporting")
        b1 == PushIf(<<>>, Len(foundEmotionalWords) > 2, "Emotional Language")
        b2 == PushIf(b1, Includes(t, <<"!">>), "Sensational Headlines")
        biasIndicators == PushIf(b2, Len(redFlags) > 2, "Multiple Red Flags")
    IN [ coreClaims |-> ga_coreClaims(c),
         tone |-> ga_tone(Len(foundEmotionalWords), Len(foundHedging)),
         objectivity |-> ga_objectivity(Len(foundEmotionalWords), Len(foundHedging)),
         emotionalLanguage |-> slice(foundEmotionalWords, 5),
         hedgingLanguage |-> slice(foundHedging, 5),
         redFlags |-> redFlags,
         verificationQuestions |-> ga_verificationQuestions,
         credibilityScore |->
             ga_credibilityScore(Len(foundEmotionalWords), Len(foundHedging),
                                 Len(redFlags)),
         biasIndicators |-> biasIndicators,
         strengths |-> strengths,
         weaknesses |-> weaknesses ]

-----------------------------------------------------------------------------
(* analyzeArticle of the analyze route *)

aa_emotionalWords ==
    << <<"shocking">>, <<"devastating">>, <<"incredible">>, <<"amazing">>,
       <<"terrible">>, <<"outrageous">>, <<"unbelievable">>, <<"stunning">> >>

aa_hedgingWords ==
    << <<"allegedly">>, <<"reportedly">>, <<"sources", " ", "say">>,
       <<"it", " ", "appears">>, <<"seems", " ", "to">>, <<"might">>,
       <<"could", " ", "be">> >>

aa_claimIndicators ==
    << <<"is">>, <<"are">>, <<"will">>, <<"has">>, <<"have">>, <<"shows">>,
       <<"proves">>, <<"demonstrates">> >>

aa_sentences(c) ==
    SelectSeq(Split(c, SentenceEnd), LAMBDA s : StrLen(trim(s)) > 10)

aa_foundEmotional(c) ==
    SelectSeq(aa_emotionalWords, LAMBDA word : Includes(toLowerCase(c), word))

aa_foundHedging(c) ==
    SelectSeq(aa_hedgingWords, LAMBDA phrase : Includes(toLowerCase(c), phrase))

aa_potentialClaims(c) ==
    LET claims == SelectSeq(aa_sentences(c),
                            LAMBDA s : \E k \in DOMAIN aa_claimIndicators :
                                Includes(toLowerCase(s), aa_claimIndicators[k]))
        first == slice(claims, 5)
    IN [i \in DOMAIN first |-> trim(first[i])]

aa_hasQuotes(c) == Includes(c, <<"\"">>) \/ Includes(c, <<"'">>)
aa_hasNumbers(c) == HasDigit(c)
aa_hasSourceAttribution(c) ==
    \/ Includes(toLowerCase(c), <<"according", " ", "to">>)
    \/ Includes(toLowerCase(c), <<"source">>)

aa_tone(nEmotional, nHedging, hasNumbers, hasSourceAttribution) ==
    IF nEmotional > 2 THEN "emotional"
    ELSE IF nHedging > 1 THEN "cautious"
    ELSE IF hasNumbers /\ hasSourceAttribution THEN "analytical"
    ELSE "neutral"

aa_credibilityScore(c) ==
    Clamp(50 + (IF aa_hasQuotes(c) THEN 15 ELSE 0)
             + (IF aa_hasNumbers(c) THEN 10 ELSE 0)
             + (IF aa_hasSourceAttribution(c) THEN 20 ELSE 0)
             - (IF Len(aa_foundEmotional(c)) > 3 THEN 20 ELSE 0)
             - (IF Len(aa_sentences(c)) < 10 THEN 15 ELSE 0))

aa_sensationalTitle(t) == Includes(t, <<"!">>) \/ toUpperCase(t) = t

aa_redFlags(c, t) ==
    LET f1 == PushIf(<<>>, Len(aa_foundEmotional(c)) > 3,
                     "Heavy use of emotional language may indicate bias")
        f2 == PushIf(f1, ~aa_hasSourceAttribution(c),
                     "Limited source attribution - claims not well-supported")
        f3 == PushIf(f2, Len(aa_sentences(c)) < 10,
                     "Article appears unusually short for the topic")
        f4 == PushIf(f3, aa_sensationalTitle(t), "Sensationalized headline")
    IN PushIf(f4, ~aa_hasNumbers(c) /\ StrLen(c) > 1000,
              "Lacks specific data or statistics")

aa_verificationQuestions ==
    << "What are the primary sources for the main claims in this article?",
       "Are there any conflicting reports or alternative perspectives on this topic?",
       "What evidence supports the key assertions made?",
       "Who benefits from this particular framing of the story?" >>

analyzeArticle(c, t) ==
    LET foundEmotional == aa_foundEmotional(c)
        foundHedging == aa_foundHedging(c)
        sentences == aa_sentences(c)
        hasQuotes == aa_hasQuotes(c)
        hasNumbers == aa_hasNumbers(c)
        hasSourceAttribution == aa_hasSourceAttribution(c)
        credibilityScore == aa_credibilityScore(c)
        s1 == PushIf(<<>>, hasQuotes, "Includes direct quotes")
        s2 == PushIf(s1, hasNumbers, "Contains specific data")
        strengths == PushIf(s2, hasSourceAttribution, "Cites sources")
        w1 == PushIf(<<>>, Len(foundEmotional) > 2, "Uses emotional language")
        w2 == PushIf(w1, ~hasSourceAttribution, "Limited source attribution")
        weaknesses == PushIf(w2, Len(sentences) < 10, "Very brief coverage")
    IN [ coreClaims |-> slice(aa_potentialClaims(c), 4),
         tone |-> aa_tone(Len(foundEmotional), Len(foundHedging), hasNumbers,
                          hasSourceAttribution),
         objectivity |-> IF credibilityScore > 70 THEN "High"
                         ELSE IF credibilityScore > 40 THEN "Moderate" ELSE "Low",
         emotionalLanguage |-> foundEmotional,
         hedgingLanguage |-> foundHedging,
         redFlags |-> aa_redFlags(c, t),
         verificationQuestions |-> aa_verificationQuestions,
         credibilityScore |-> credibilityScore,
         biasIndicators |-> IF Len(foundEmotional) > 2
                            THEN <<"Emotional language", "Potential sensationalism">>
                            ELSE <<>>,
         strengths |-> strengths,
         weaknesses |-> weaknesses ]

-----------------------------------------------------------------------------
(* JavaScript values of the request bodies *)

Undefined == [type |-> "undefined"]
Null == [type |-> "null"]
Str(t) == [type |-> "string", value |-> t]
Num(n) == [type |-> "number", value |-> n]

\* !v
Falsy(v) ==
    \/ v.type = "undefined"
    \/ v.type = "null"
    \/ v.type = "string" /\ v.value = <<>>
    \/ v.type = "number" /\ v.value = 0

\* a || b || ... : the first truthy operand, else the last operand
RECURSIVE FirstTruthy(_)
FirstTruthy(vs) ==
    IF Len(vs) = 1 \/ ~Falsy(Head(vs)) THEN Head(vs) ELSE FirstTruthy(Tail(vs))

\* x || undefined
OrUndefined(v) == IF Falsy(v) THEN Undefined ELSE v

-----------------------------------------------------------------------------
(* Content extraction of the scrape route *)

contentSelectors ==
    <<"article", ".article-content", ".post-content", ".entry-content",
      "main", ".content", "p">>

\* $(selector): the elements of the document that the selector matches
Select(d, selector) == SelectSeq(d.blocks, LAMBDA b : b.sel = selector)

\* elements.map((_, el) => $(el).text()).get().join(" ").trim()
ElementsText(elements) ==
    trim(join([i \in DOMAIN elements |-> elements[i].text], <<" ">>))

LongEnoughFrom100(c) == StrLen(c) >= 100

\* content.length > 100
LongEnough(c) == StrLen(c) > 100

\* the for loop over contentSelectors: the content it leaves and the number
\* of selectors it evaluated
ScanSelectors(d) ==
    LET RECURSIVE loop(_, _)
        loop(i, cur) ==
            IF i > Len(contentSelectors) THEN [content |-> cur, scanned |-> i - 1]
            ELSE LET elements == Select(d, contentSelectors[i])
                 IN IF Len(elements) > 0
                    THEN IF LongEnough(ElementsText(elements))
                         THEN [content |-> ElementsText(elements), scanned |-> i]
                         ELSE loop(i + 1, ElementsText(elements))
                    ELSE loop(i + 1, cur)
    IN loop(1, <<>>)

\* $("body").text(): the text nodes of the body in document order, with the
\* line breaks between the elements
RECURSIVE BlocksText(_)
BlocksText(bs) ==
    IF bs = <<>> THEN <<"\n">>
    ELSE <<"\n">> \o Head(bs).text \o BlocksText(Tail(bs))

BodyText(d) == BlocksText(d.blocks)

\* if (!content) content = $("body").text().replace(/\s+/g, " ").trim()
ExtractContent(d) ==
    IF ScanSelectors(d).content = <<>>
    THEN trim(CollapseWhiteSpace(BodyText(d)))
    ELSE ScanSelectors(d).content

ExtractTitle(d) ==
    FirstTruthy(<<Str(trim(d.titleTag)), Str(trim(d.h1)), d.ogTitle,
                  Str(<<"Untitled", " ", "Article">>)>>).value

ExtractAuthor(d) == FirstTruthy(d.author)

ExtractPublishDate(d) == FirstTruthy(d.publishDate)

-----------------------------------------------------------------------------
(* Inputs *)

Endpoints == {"scrape", "analyze"}

BodyWords ==
    { <<"amazing">>, <<"Devastating", ".">>, <<"shocking", "-", "stunning">>,
      <<"might">>, <<"reportedly", ".">>, <<"'", "sources", "'">>, <<"42">>,
      <<X101>> }

Bases == UNION { [1..n -> BodyWords] : n \in 0..MaxBase }

RECURSIVE Repeat(_, _)
Repeat(s, n) == IF n = 0 THEN <<>> ELSE s \o Repeat(s, n - 1)

\* the words of a base, repeated, separated by single spaces
Bodies == { join(Repeat(b, r), <<" ">>) : b \in Bases, r \in {1, MaxReps} }

Titles ==
    { <<"Economy", " ", "markets", " ", "fall">>,
      <<"NASA">>,
      <<"BREAKING", ":", " ", "markets", " ", "fall">>,
      <<"BREAKING", ":", " ", "Economy", " ", "COLLAPSES", "!", "!">> }

ElemTexts ==
    { <<>>,
      <<"\n", " ", "might", " ", " ", "be", "\n">>,
      <<X50>>,
      <<X50, " ", X49>>,
      <<X1997, " ", "amazing", ".">> }

BlockKinds == { contentSelectors[i] : i \in DOMAIN contentSelectors } \cup {"div"}

Blocks == [sel : BlockKinds, text : ElemTexts]

DocHeads ==
    { [ titleTag |-> <<"\n", "BREAKING", ":", " ", "markets", " ", "fall", "\n">>,
        h1 |-> <<"NASA">>, ogTitle |-> Str(<<"NASA">>),
        author |-> <<Undefined, Str(<<"NASA">>), Str(<<>>), Str(<<>>)>>,
        publishDate |-> <<Str(<<"42">>), Undefined, Undefined, Str(<<>>)>> ],
      [ titleTag |-> <<"\n">>, h1 |-> <<>>, ogTitle |-> Undefined,
        author |-> <<Undefined, Undefined, Str(<<>>), Str(<<>>)>>,
        publishDate |-> <<Undefined, Undefined, Undefined, Str(<<>>)>> ] }

Docs ==
    { [ titleTag |-> h.titleTag, h1 |-> h.h1, ogTitle |-> h.ogTitle,
        author |-> h.author, publishDate |-> h.publishDate, blocks |-> bs ] :
      h \in DocHeads, bs \in UNION { [1..n -> Blocks] : n \in 0..MaxBlocks } }

NoDoc == [none |-> TRUE]

TheUrl == <<"https://example.com/article">>

InvalidJson == [valid |-> FALSE]

ScrapeRequests ==
    {InvalidJson} \cup
    { [valid |-> TRUE, url |-> u] : u \in {Undefined, Str(<<>>), Str(TheUrl)} }

AnalyzeRequests ==
    {InvalidJson} \cup
    { [valid |-> TRUE, content |-> c, title |-> t, url |-> Str(TheUrl)] :
        c \in {Undefined, Num(7)} \cup
              { Str(x) : x \in ElemTexts \cup {<<"could", " ", "be", " ", "amazing", "!">>} },
        t \in {Undefined, Str(<<>>), Num(7)} \cup { Str(x) : x \in Titles } }

-----------------------------------------------------------------------------
(* The two POST handlers, one action per stretch between awaits *)

NoResponse == [none |-> TRUE]

\* the four useState initial values; no call of handleAnalyze yet
PageMounted ==
    /\ url = <<>>
    /\ isAnalyzing = FALSE
    /\ pageAnalysis = Null
    /\ error = Null
    /\ handlers = <<>>
    /\ clicks = 0
    /\ outcomes = 0

Init ==
    /\ endpoint \in Endpoints
    /\ request \in (IF endpoint = "scrape" THEN ScrapeRequests ELSE AnalyzeRequests)
    /\ pc = "json"
    /\ fetchOutcome = "none"
    /\ doc = NoDoc
    /\ title = <<>>
    /\ content = <<>>
    /\ scanned = 0
    /\ analysis = NoAnalysis
    /\ response = NoResponse
    /\ fetches = 0
    /\ extractions = 0
    /\ analyses = 0
    /\ responses = 0
    /\ PageMounted

\* return NextResponse.json(body, { status })
Respond(status, body) ==
    /\ response' = [status |-> status, body |-> body]
    /\ responses' = responses + 1
    /\ pc' = "done"

ScrapeFailure == Respond(500, [error |-> "Failed to scrape article"])

\* if (!url)
UrlMissing(req) == Falsy(req.url)

\* await request.json() settles; the url check; the fetch is issued
ScrapeParseRequest ==
    /\ endpoint = "scrape" /\ pc = "json"
    /\ IF ~request.valid
       THEN ScrapeFailure /\ UNCHANGED fetches
       ELSE IF UrlMissing(request)
            THEN Respond(400, [error |-> "URL is required"]) /\ UNCHANGED fetches
            ELSE /\ fetches' = fetches + 1
                 /\ pc' = "fetch"
                 /\ UNCHANGED <<response, responses>>
    /\ UNCHANGED <<endpoint, request, fetchOutcome, doc, title, content, scanned,
                   analysis, extractions, analyses>>
    /\ UNCHANGED pageVars

\* what the fetch can settle with: the 10 second AbortSignal fires, the
\* network fails, a response with a status outside 200..299, a 2xx response
FetchOutcomes == {"timeout", "network", "status", "ok"}

\* the fetch resolved with a response, and the ok check did not throw
FetchOkIgnoringStatus(outcome) == outcome \in {"ok", "status"}

\* the fetch resolved and response.ok holds
FetchOk(outcome) == outcome = "ok"

\* await fetch(...) settles; if (!response.ok) throw
ScrapeFetchSettles ==
    /\ endpoint = "scrape" /\ pc = "fetch"
    /\ \E outcome \in FetchOutcomes :
        /\ fetchOutcome' = outcome
        /\ IF FetchOk(outcome)
           THEN /\ pc' = "text"
                /\ doc' \in Docs
                /\ UNCHANGED <<response, responses>>
           ELSE ScrapeFailure /\ UNCHANGED doc
    /\ UNCHANGED <<endpoint, request, title, content, scanned, analysis,
                   fetches, extractions, analyses>>
    /\ UNCHANGED pageVars

\* const aiAnalysis = generateAnalysis(content, title, url): the text the
\* analyzer is given
AnalyzedTextCut(c) == substring(c, 2000)
AnalyzedText(c) == c

\* content: content.substring(0, 2000) of the response
DisplayedContent(c) == substring(c, 2000)

\* what reading the body can settle with: the AbortSignal and the network can
\* still end it
TextOutcomes == {"timeout", "network", "ok"}

\* await response.text() settles; cheerio.load, the extraction, the analysis
\* and the response
ScrapeTextSettles ==
    /\ endpoint = "scrape" /\ pc = "text"
    /\ \/ \E outcome \in TextOutcomes \ {"ok"} :
            /\ fetchOutcome' = outcome
            /\ ScrapeFailure
            /\ UNCHANGED <<title, content, scanned, analysis, extractions,
                           analyses>>
       \/ /\ "ok" \in TextOutcomes
          /\ UNCHANGED fetchOutcome
          /\ title' = ExtractTitle(doc)
          /\ content' = ExtractContent(doc)
          /\ scanned' = ScanSelectors(doc).scanned
          /\ extractions' = extractions + 1
          /\ analysis' = generateAnalysis(AnalyzedText(ExtractContent(doc)),
                                          ExtractTitle(doc))
          /\ analyses' = analyses + 1
          /\ Respond(200,
               [ title |-> Str(ExtractTitle(doc)),
                 url |-> request.url,
                 author |-> OrUndefined(ExtractAuthor(doc)),
                 publishDate |-> OrUndefined(ExtractPublishDate(doc)),
                 content |-> Str(DisplayedContent(ExtractContent(doc))),
                 aiAnalysis |->
                     generateAnalysis(AnalyzedText(ExtractContent(doc)),
                                      ExtractTitle(doc)) ])
    /\ UNCHANGED <<endpoint, request, doc, fetches>>
    /\ UNCHANGED pageVars

FieldsMissingContentOnly(req) == Falsy(req.content)

\* if (!content || !title)
FieldsMissing(req) == Falsy(req.content) \/ Falsy(req.title)

\* await request.json() settles; the field check; the timer is started
AnalyzeParseRequest ==
    /\ endpoint = "analyze" /\ pc = "json"
    /\ IF ~request.valid
       THEN Respond(500, [error |-> "Failed to analyze article"])
       ELSE IF FieldsMissing(request)
            THEN Respond(400, [error |-> "Content and title are required"])
            ELSE pc' = "timer" /\ UNCHANGED <<response, responses>>
    /\ UNCHANGED <<endpoint, request, fetchOutcome, doc, title, content, scanned,
                   analysis, fetches, extractions, analyses>>
    /\ UNCHANGED pageVars

\* the 2 second timer fires; analyzeArticle and the response.  A content or a
\* title that is not a string makes analyzeArticle throw
AnalyzeTimerFires ==
    /\ endpoint = "analyze" /\ pc = "timer"
    /\ analyses' = analyses + 1
    /\ IF request.content.type = "string" /\ request.title.type = "string"
       THEN /\ content' = request.content.value
            /\ title' = request.title.value
            /\ analysis' = analyzeArticle(request.content.value, request.title.value)
            /\ Respond(200, [analysis |-> analyzeArticle(request.content.value,
                                                         request.title.value)])
       ELSE /\ Respond(500, [error |-> "Failed to analyze article"])
            /\ UNCHANGED <<content, title, analysis>>
    /\ UNCHANGED <<endpoint, request, fetchOutcome, doc, scanned, fetches,
                   extractions>>
    /\ UNCHANGED pageVars

Next ==
    \/ ScrapeParseRequest
    \/ ScrapeFetchSettles
    \/ ScrapeTextSettles
    \/ AnalyzeParseRequest
    \/ AnalyzeTimerFires

Spec == Init /\ [][Next]_vars

\* the event loop runs every continuation whose await has settled, and the
\* fetch and the timer always settle
FairSpec == Spec /\ WF_vars(Next)

-----------------------------------------------------------------------------
(* The analyzers as pure functions of a body text and a title *)

InitAnalysis ==
    /\ endpoint \in Endpoints
    /\ content \in Bodies
    /\ title \in Titles
    /\ pc = "call"
    /\ request = InvalidJson
    /\ fetchOutcome = "none"
    /\ doc = NoDoc
    /\ scanned = 0
    /\ analysis = NoAnalysis
    /\ response = NoResponse
    /\ fetches = 0
    /\ extractions = 0
    /\ analyses = 0
    /\ responses = 0
    /\ PageMounted

CallGenerateAnalysis ==
    /\ endpoint = "scrape" /\ pc = "call"
    /\ analysis' = generateAnalysis(content, title)
    /\ analyses' = analyses + 1
    /\ pc' = "returned"
    /\ UNCHANGED <<endpoint, request, fetchOutcome, doc, title, content, scanned,
                   response, fetches, extractions, responses>>
    /\ UNCHANGED pageVars

CallAnalyzeArticle ==
    /\ endpoint = "analyze" /\ pc = "call"
    /\ analysis' = analyzeArticle(content, title)
    /\ analyses' = analyses + 1
    /\ pc' = "returned"
    /\ UNCHANGED <<endpoint, request, fetchOutcome, doc, title, content, scanned,
                   response, fetches, extractions, responses>>
    /\ UNCHANGED pageVars

NextAnalysis == CallGenerateAnalysis \/ CallAnalyzeArticle

SpecAnalysis == InitAnalysis /\ [][NextAnalysis]_vars

-----------------------------------------------------------------------------
(* The page component: DigitalSkepticPage and its handleAnalyze *)

\* what the user can type into the input
UrlInputs ==
    { <<>>, <<" ">>, TheUrl, <<" ", "https://example.org/news", "\n">> }

Obj(fields) == [type |-> "object"] @@ fields

\* the members the page reads from a parsed response body
NoMembers ==
    [ title |-> Undefined, url |-> Undefined, author |-> Undefined,
      publishDate |-> Undefined, content |-> Undefined,
      aiAnalysis |-> Undefined, error |-> Undefined ]

\* the result object of the scrape route for the url u
ResultBody(u) ==
    Obj([ NoMembers EXCEPT
            !.title = Str(<<"NASA">>),
            !.url = Str(u),
            !.content = Str(<<"might">>),
            !.aiAnalysis = Obj(generateAnalysis(<<"might">>, <<"NASA">>)) ])

ResultWithoutAnalysis(u) == [ResultBody(u) EXCEPT !.aiAnalysis = Undefined]

ErrorBody(message) == Obj([NoMembers EXCEPT !.error = Str(<<message>>)])

\* the bodies a response can carry: JSON objects, the JSON null, and text
\* that response.json() rejects
ResponseBodies(u) ==
    { ResultBody(u), ResultWithoutAnalysis(u),
      ErrorBody("URL is required"), ErrorBody("Failed to scrape article"),
      Obj(NoMembers), Null, InvalidJson }

StatusText(status) ==
    CASE status = 200 -> "OK"
      [] status = 400 -> "Bad Request"
      [] status = 500 -> "Internal Server Error"

StatusDigits(status) ==
    CASE status = 200 -> "200"
      [] status = 400 -> "400"
      [] status = 500 -> "500"

\* the responses the fetch of the page can resolve with; response.ok is a
\* status in 200..299
PageResponses(u) ==
    { [ ok |-> (status >= 200 /\ status <= 299), status |-> status,
        statusText |-> StatusText(status), body |-> b ] :
      status \in {200, 400, 500}, b \in ResponseBodies(u) }

\* the fetch rejects: no connection
FetchRejected == [rejected |-> TRUE]

RemoveAt(seq, i) == SubSeq(seq, 1, i - 1) \o SubSeq(seq, i + 1, Len(seq))

\* <Button onClick={handleAnalyze} disabled={!url.trim() || isAnalyzing}>
ButtonEnabledWhileAnalyzing == trim(url) # <<>>
ButtonEnabled == trim(url) # <<>> /\ ~isAnalyzing

\* <Input onChange={(e) => setUrl(e.target.value)} disabled={isAnalyzing} />
SetUrl ==
    /\ endpoint = "page"
    /\ ~isAnalyzing
    /\ \E v \in UrlInputs : v # url /\ url' = v
    /\ UNCHANGED <<isAnalyzing, pageAnalysis, error, handlers, clicks, outcomes>>
    /\ UNCHANGED routeVars

\* a click on Analyze: handleAnalyze up to its await fetch(...)
ClickAnalyze ==
    /\ endpoint = "page"
    /\ ButtonEnabled
    \* if (!url.trim()) return
    /\ trim(url) # <<>>
    /\ clicks < MaxClicks
    /\ isAnalyzing' = TRUE
    /\ error' = Null
    /\ pageAnalysis' = Null
    /\ handlers' = Append(handlers, [stage |-> "fetch", url |-> url,
                                     response |-> NoResponse])
    /\ clicks' = clicks + 1
    /\ UNCHANGED <<url, outcomes>>
    /\ UNCHANGED routeVars

\* the call leaves the try block: it is no longer waiting.  finally:
\* setIsAnalyzing(false)
Leave(i) ==
    /\ handlers' = RemoveAt(handlers, i)
    /\ isAnalyzing' = FALSE
    /\ outcomes' = outcomes + 1

\* catch (err): setError(err.message), then finally
Fail(i, message) ==
    /\ error' = Str(message)
    /\ UNCHANGED pageAnalysis
    /\ Leave(i)

\* await fetch(...) settles: a rejection goes to the catch, a response goes
\* on to one of the two await response.json()
FetchSettles ==
    /\ endpoint = "page"
    /\ \E i \in DOMAIN handlers :
        /\ handlers[i].stage = "fetch"
        /\ \E r \in PageResponses(handlers[i].url) \cup {FetchRejected} :
            IF r = FetchRejected
            THEN Fail(i, <<"Failed to fetch">>)
            ELSE /\ handlers' =
                      [handlers EXCEPT ![i].response = r,
                                       ![i].stage = IF r.ok THEN "json"
                                                    ELSE "errorJson"]
                 /\ UNCHANGED <<isAnalyzing, pageAnalysis, error, outcomes>>
    /\ UNCHANGED <<url, clicks>>
    /\ UNCHANGED routeVars

\* errorMessage of the !response.ok branch: errorData.error || errorMessage,
\* or the status line when response.json() rejects or errorData is null
ErrorMessage(r) ==
    IF r.body = InvalidJson \/ r.body = Null
    THEN <<"Server error: ", StatusDigits(r.status), " ", r.statusText>>
    ELSE FirstTruthy(<<r.body.error, Str(<<"Failed to scrape article">>)>>).value

\* await response.json() of the !response.ok branch settles; throw new
\* Error(errorMessage)
ErrorJsonSettles ==
    /\ endpoint = "page"
    /\ \E i \in DOMAIN handlers :
        /\ handlers[i].stage = "errorJson"
        /\ Fail(i, ErrorMessage(handlers[i].response))
    /\ UNCHANGED <<url, clicks>>
    /\ UNCHANGED routeVars

\* the aiAnalysis the page shows when the response has none
MockAnalysis ==
    Obj([ coreClaims |-> <<"Analysis temporarily unavailable">>,
          languageAnalysis |->
              [ tone |-> "neutral", objectivity |-> "Moderate",
                emotionalLanguage |-> <<>>, hedgingLanguage |-> <<>> ],
          redFlags |-> <<"AI analysis could not be completed">>,
          verificationQuestions |-> <<"Please try again later">>,
          overallAssessment |->
              [ credibilityScore |-> 50, biasIndicators |-> <<>>,
                strengthsWeaknesses |->
                    [strengths |-> <<>>, weaknesses |-> <<>>] ] ])

\* the object handed to setAnalysis
Report(data) ==
    Obj([ title |-> data.title, url |-> data.url, author |-> data.author,
          publishDate |-> data.publishDate, content |-> data.content,
          aiAnalysis |-> IF Falsy(data.aiAnalysis) THEN MockAnalysis
                         ELSE data.aiAnalysis ])

\* await response.json() of an ok response settles: a rejection and the
\* TypeError of data.title on null go to the catch, an object to setAnalysis
JsonSettles ==
    /\ endpoint = "page"
    /\ \E i \in DOMAIN handlers :
        /\ handlers[i].stage = "json"
        /\ LET data == handlers[i].response.body
           IN IF data = InvalidJson
              THEN Fail(i, <<"Invalid response format from server">>)
              ELSE IF data = Null
              THEN Fail(i, <<"Cannot read properties of null (reading 'title')">>)
              ELSE /\ pageAnalysis' = Report(data)
                   /\ UNCHANGED error
                   /\ Leave(i)
    /\ UNCHANGED <<url, clicks>>
    /\ UNCHANGED routeVars

\* {error && ... <Button onClick={() => setError(null)}>Try Again</Button>}
TryAgain ==
    /\ endpoint = "page"
    /\ ~Falsy(error)
    /\ error' = Null
    /\ UNCHANGED <<url, isAnalyzing, pageAnalysis, handlers, clicks, outcomes>>
    /\ UNCHANGED routeVars

\* the page is mounted; the route variables are at rest
InitPage ==
    /\ endpoint = "page"
    /\ request = InvalidJson
    /\ pc = "page"
    /\ fetchOutcome = "none"
    /\ doc = NoDoc
    /\ title = <<>>
    /\ content = <<>>
    /\ scanned = 0
    /\ analysis = NoAnalysis
    /\ response = NoResponse
    /\ fetches = 0
    /\ extractions = 0
    /\ analyses = 0
    /\ responses = 0
    /\ PageMounted

NextPage ==
    \/ SetUrl
    \/ ClickAnalyze
    \/ FetchSettles
    \/ ErrorJsonSettles
    \/ JsonSettles
    \/ TryAgain

SpecPage == InitPage /\ [][NextPage]_vars

-----------------------------------------------------------------------------
(* C1: the credibility score *)

\* the score of generateAnalysis before Math.max and Math.min
C1_RawScore ==
    70 - Len(ga_foundEmotionalWords(content)) * 5
       + Len(ga_foundHedging(content)) * 3
       - Len(ga_redFlags(content, title)) * 10

\* C1: for every body text and title, the credibilityScore that
\* generateAnalysis and analyzeArticle return is an integer from 0 to 100.
C1_ScoreInRange ==
    pc = "returned" => analysis.credibilityScore \in 0..100

\* generateAnalysis returned for a body whose unclamped score is negative
C1_Witness ==
    /\ pc = "returned" /\ endpoint = "scrape"
    /\ C1_RawScore < 0
    /\ analysis.credibilityScore = 0

-----------------------------------------------------------------------------
(* C2, C3: body text resolution *)

\* the selectors that match elements whose joined, trimmed text is longer
\* than 100 characters
C2_LongSelectors(d) ==
    { i \in DOMAIN contentSelectors :
        /\ \E k \in DOMAIN d.blocks : d.blocks[k].sel = contentSelectors[i]
        /\ StrLen(ElementsText(Select(d, contentSelectors[i]))) > 100 }

C2_First(S) == CHOOSE i \in S : \A j \in S : i <= j

\* C2: when some selector yields more than 100 characters, the body text is
\* the text of the first such selector in the fixed order, and no selector
\* after it is evaluated.
C2_FirstLongSelectorWins ==
    (extractions > 0 /\ C2_LongSelectors(doc) # {}) =>
        /\ content = ElementsText(Select(doc, contentSelectors[C2_First(C2_LongSelectors(doc))]))
        /\ scanned = C2_First(C2_LongSelectors(doc))

\* an earlier selector matched a non-empty text of at most 100 characters and
\* a later one passed the threshold
C2_Witness ==
    /\ extractions > 0 /\ C2_LongSelectors(doc) # {}
    /\ \E j \in 1..(C2_First(C2_LongSelectors(doc)) - 1) :
          /\ Len(Select(doc, contentSelectors[j])) > 0
          /\ ElementsText(Select(doc, contentSelectors[j])) # <<>>
    /\ StrLen(content) > 100

\* C3: when no selector yields more than 100 characters, the body text is the
\* whole document's text with whitespace runs collapsed, also when a selector
\* matched a non-empty text of at most 100 characters.
C3_FallbackToDocumentText ==
    (extractions > 0 /\ C2_LongSelectors(doc) = {}) =>
        content = trim(CollapseWhiteSpace(BodyText(doc)))

-----------------------------------------------------------------------------
(* C4: an empty body text *)

C4_EmptyBody ==
    \/ endpoint = "scrape" /\ extractions > 0 /\ content = <<>>
    \/ /\ endpoint = "analyze" /\ pc = "done" /\ request.valid
       /\ request.content = Str(<<>>)

\* C4: when the body text is empty after extraction the request fails with an
\* error, the response carries no analysis and the analyzer was not run.
C4_EmptyBodyIsAnError ==
    C4_EmptyBody =>
        /\ response.status # 200
        /\ DOMAIN response.body = {"error"}
        /\ analyses = 0

-----------------------------------------------------------------------------
(* C5: a failed fetch *)

C5_FetchFailed == fetchOutcome \in {"timeout", "network", "status"}

\* C5: in the scrape handler a fetch that timed out, failed or returned a
\* non-2xx status is followed by no extraction, no analysis and no second
\* fetch, only by the error response with status 500; extraction and analysis
\* happen only after a successful fetch.
C5_NoPipelineAfterFailedFetch ==
    /\ fetches <= 1
    /\ (endpoint = "scrape" /\ C5_FetchFailed) =>
          /\ extractions = 0 /\ analyses = 0 /\ analysis = NoAnalysis
          /\ fetches = 1
          /\ pc = "done"
          /\ response = [status |-> 500, body |-> [error |-> "Failed to scrape article"]]
    /\ (endpoint = "scrape" /\ (extractions > 0 \/ analyses > 0)) =>
          fetchOutcome = "ok"

\* the fetch returned a non-2xx status and the handler has answered
C5_Witness ==
    /\ endpoint = "scrape" /\ fetchOutcome = "status"
    /\ pc = "done" /\ response.status = 500

-----------------------------------------------------------------------------
(* C6: the responses *)

\* a required field of the parsed request body is absent or empty
C6_FieldMissing ==
    /\ request.valid
    /\ IF endpoint = "scrape"
       THEN request.url \in {Undefined, Str(<<>>)}
       ELSE \/ request.content \in {Undefined, Str(<<>>)}
            \/ request.title \in {Undefined, Str(<<>>)}

\* the request body does not parse, the fetch fails, or the analyzer throws
C6_Failure ==
    \/ ~request.valid
    \/ ~C6_FieldMissing /\ endpoint = "scrape" /\ C5_FetchFailed
    \/ /\ ~C6_FieldMissing /\ endpoint = "analyze"
       /\ (request.content.type # "string" \/ request.title.type # "string")

C6_FullResult ==
    IF endpoint = "scrape"
    THEN /\ DOMAIN response.body =
              {"title", "url", "author", "publishDate", "content", "aiAnalysis"}
         /\ analysis # NoAnalysis
         /\ response.body.aiAnalysis = analysis
    ELSE /\ analysis # NoAnalysis
         /\ response.body = [analysis |-> analysis]

C6_Responses ==
    /\ responses <= 1
    /\ (pc = "done") <=> (responses = 1)
    /\ (response = NoResponse) <=> (responses = 0)
    /\ pc = "done" =>
          /\ response.status \in {200, 400, 500}
          /\ response.status = 200 => C6_FullResult
          /\ response.status # 200 => DOMAIN response.body = {"error"}
          /\ response.status = 400 <=> C6_FieldMissing
          /\ response.status = 500 <=> C6_Failure
          /\ response.status = 400 => fetches = 0 /\ analyses = 0

\* C6: every request to either endpoint ends in exactly one response, a
\* success with the full result or an error object whose status is 400
\* exactly when a required field is missing and 500 for a fetch, parse or
\* analysis failure; a request answered with 400 causes no fetch or analysis.
C6_ExactlyOneResponse == []C6_Responses /\ <>(responses = 1)

\* the analyze endpoint rejected a request that has a content but no title
C6_Witness ==
    /\ endpoint = "analyze" /\ pc = "done"
    /\ request.valid /\ request.title = Undefined /\ request.content.type = "string"
    /\ response.status = 400

-----------------------------------------------------------------------------
(* C7: the matched lexicon terms *)

C7_Lexicon(kind) ==
    IF endpoint = "scrape"
    THEN (IF kind = "emotional" THEN ga_emotionalWords ELSE ga_hedgingPhrases)
    ELSE (IF kind = "emotional" THEN aa_emotionalWords ELSE aa_hedgingWords)

\* list holds at most 5 entries, each a term of the lexicon that occurs in the
\* body, in strictly increasing lexicon position
C7_OrderedTerms(list, lexicon) ==
    /\ Len(list) <= 5
    /\ \A i \in DOMAIN list :
          \E k \in DOMAIN lexicon :
              list[i] = lexicon[k] /\ Includes(toLowerCase(content), lexicon[k])
    /\ \A i, j \in DOMAIN list :
          i < j => \E k, l \in DOMAIN lexicon :
                      k < l /\ list[i] = lexicon[k] /\ list[j] = lexicon[l]

\* C7: emotionalLanguage and hedgingLanguage each hold at most 5 entries,
\* every entry is a lexicon term that occurs in the body, no term appears
\* twice, and the entries are in lexicon order.
C7_LexiconTermsCapped ==
    pc = "returned" =>
        /\ C7_OrderedTerms(analysis.emotionalLanguage, C7_Lexicon("emotional"))
        /\ C7_OrderedTerms(analysis.hedgingLanguage, C7_Lexicon("hedging"))

-----------------------------------------------------------------------------
(* C8: the tone *)

C8_EmotionalHits ==
    IF endpoint = "scrape" THEN Len(ga_foundEmotionalWords(content))
    ELSE Len(aa_foundEmotional(content))

C8_HedgingHits ==
    IF endpoint = "scrape" THEN Len(ga_foundHedging(content))
    ELSE Len(aa_foundHedging(content))

C8_Numeral == \E i \in DOMAIN content : content[i] = "42"

C8_Attribution ==
    \/ Includes(toLowerCase(content), <<"source">>)
    \/ Includes(toLowerCase(content), <<"according", " ", "to">>)

\* C8 as stated: the tone is emotional when emotional hits > 2 and hedging
\* hits = 0; else cautious when hedging hits > 0 and emotional hits = 0; else
\* mixed when both are present; else analytical when neither is present and
\* the body has a numeral and an attribution marker; else neutral.
C8_ToneAsStated ==
    pc = "returned" =>
        analysis.tone =
            LET e == C8_EmotionalHits
                h == C8_HedgingHits
            IN IF e > 2 /\ h = 0 THEN "emotional"
               ELSE IF h > 0 /\ e = 0 THEN "cautious"
               ELSE IF e > 0 /\ h > 0 THEN "mixed"
               ELSE IF e = 0 /\ h = 0 /\ C8_Numeral /\ C8_Attribution
                    THEN "analytical"
               ELSE "neutral"

\* C8 as amended: generateAnalysis gives emotional exactly when there are
\* emotional hits and no hedging hits, cautious exactly when there are hedging
\* hits and no emotional hits, mixed exactly when both are present, neutral
\* exactly when neither is, and never analytical; analyzeArticle gives
\* emotional exactly when there are more than 2 emotional hits, cautious
\* exactly when there are at most 2 emotional and more than 1 hedging hits,
\* analytical exactly when neither holds and the body has a numeral and an
\* attribution marker, neutral in the remaining case, and never mixed.
C8_ToneByRoute ==
    pc = "returned" =>
        LET e == C8_EmotionalHits
            h == C8_HedgingHits
            tone == analysis.tone
        IN IF endpoint = "scrape"
           THEN /\ tone = "emotional" <=> (e > 0 /\ h = 0)
                /\ tone = "cautious" <=> (e = 0 /\ h > 0)
                /\ tone = "mixed" <=> (e > 0 /\ h > 0)
                /\ tone = "neutral" <=> (e = 0 /\ h = 0)
           ELSE /\ tone = "emotional" <=> e > 2
                /\ tone = "cautious" <=> (e <= 2 /\ h > 1)
                /\ tone = "analytical" <=>
                       (e <= 2 /\ h <= 1 /\ C8_Numeral /\ C8_Attribution)
                /\ tone = "neutral" <=>
                       (e <= 2 /\ h <= 1 /\ ~(C8_Numeral /\ C8_Attribution))

\* generateAnalysis called a body with one or two emotional hits and no
\* hedging emotional
C8_Witness ==
    /\ pc = "returned" /\ endpoint = "scrape"
    /\ C8_EmotionalHits \in 1..2 /\ C8_HedgingHits = 0
    /\ analysis.tone = "emotional"

-----------------------------------------------------------------------------
(* C9, C10: the red flags *)

\* the position of a flag in the check order of the specification
C9_Rank(flag) ==
    CASE flag \in {"Excessive use of emotional language",
                   "Heavy use of emotional language may indicate bias"} -> 1
      [] flag \in {"Lack of cited sources or references",
                   "Limited source attribution - claims not well-supported"} -> 2
      [] flag \in {"Very short article with limited information",
                   "Article appears unusually short for the topic"} -> 3
      [] flag = "Sensationalized headline" -> 4
      [] flag = "Lacks specific data or statistics" -> 5

\* C9 as stated: redFlags holds each flag at most once, in the order heavy
\* emotional language, lack of cited sources, unusually short article,
\* sensationalized headline, lacks specific data; the lack-of-sources flag
\* precedes the short-article flag whenever both are present.
C9_FlagsInCheckOrder ==
    pc = "returned" =>
        \A i, j \in DOMAIN analysis.redFlags :
            i < j => C9_Rank(analysis.redFlags[i]) < C9_Rank(analysis.redFlags[j])

C9_HasFlag(flag) ==
    \E i \in DOMAIN analysis.redFlags : analysis.redFlags[i] = flag

C9_TitleHas(chunk) == \E i \in DOMAIN title : title[i] = chunk

C9_BodyHas(word) ==
    \E i \in DOMAIN content : content[i] = word \/ <<content[i], word>> \in ProperSubstring

\* the flags of each route in the order of its checks
C9_ScrapeOrder ==
    << "Excessive use of emotional language",
       "Very short article with limited information",
       "Lack of cited sources or references",
       "Sensationalized headline" >>

C9_AnalyzeOrder ==
    << "Heavy use of emotional language may indicate bias",
       "Limited source attribution - claims not well-supported",
       "Article appears unusually short for the topic",
       "Sensationalized headline",
       "Lacks specific data or statistics" >>

\* the check behind each flag
C9_Matches(flag) ==
    CASE flag = "Excessive use of emotional language" ->
            Len(ga_foundEmotionalWords(content)) > 3
      [] flag = "Very short article with limited information" ->
            Len(ga_sentences(content)) < 5
      [] flag = "Lack of cited sources or references" ->
            ~C9_BodyHas("source") /\ ~C9_BodyHas("study") /\ ~C9_BodyHas("research")
      [] flag = "Heavy use of emotional language may indicate bias" ->
            Len(aa_foundEmotional(content)) > 3
      [] flag = "Limited source attribution - claims not well-supported" ->
            ~C8_Attribution
      [] flag = "Article appears unusually short for the topic" ->
            Len(aa_sentences(content)) < 10
      [] flag = "Lacks specific data or statistics" ->
            ~C8_Numeral /\ StrLen(content) > 1000
      [] flag = "Sensationalized headline" ->
            IF endpoint = "scrape"
            THEN C9_TitleHas("!") \/ C9_TitleHas("BREAKING")
            ELSE C9_TitleHas("!") \/ \A i \in DOMAIN title : Upper(title[i]) = title[i]

\* C9 as amended: redFlags holds exactly the flags whose check matches, each
\* at most once, in the check order of the route: in generateAnalysis
\* excessive emotional language, very short article, lack of cited sources,
\* sensationalized headline; in analyzeArticle heavy emotional language,
\* limited source attribution, unusually short article, sensationalized
\* headline, lacks specific data.
C9_FlagsInRouteOrder ==
    pc = "returned" =>
        analysis.redFlags =
            SelectSeq(IF endpoint = "scrape" THEN C9_ScrapeOrder ELSE C9_AnalyzeOrder,
                      C9_Matches)

\* generateAnalysis raised the short-article flag and, after it, the
\* lack-of-sources flag
C9_Witness ==
    /\ pc = "returned" /\ endpoint = "scrape"
    /\ \E i, j \in DOMAIN analysis.redFlags :
          /\ i < j
          /\ analysis.redFlags[i] = "Very short article with limited information"
          /\ analysis.redFlags[j] = "Lack of cited sources or references"

-----------------------------------------------------------------------------
(* C11: the analyzer sees the whole text, the response a prefix of it *)

\* the characters of a text, its chunks run together
C11_Characters(t) ==
    LET RECURSIVE run(_)
        run(i) == IF i > Len(t) THEN "" ELSE t[i] \o run(i + 1)
    IN run(1)

\* the scrape handler has answered with a result
C11_Answered == endpoint = "scrape" /\ pc = "done" /\ response.status = 200

\* C11: in a result of the scrape handler the content field is the first
\* min(2000, length) characters of the extracted text, and aiAnalysis is the
\* analysis of the whole extracted text
C11_TruncationOnlyInResponse ==
    C11_Answered =>
        LET whole == C11_Characters(content)
            shown == C11_Characters(response.body.content.value)
        IN /\ Len(shown) = Min(2000, Len(whole))
           /\ shown = SubSeq(whole, 1, Len(shown))
           /\ response.body.aiAnalysis = generateAnalysis(content, title)
           /\ analysis = response.body.aiAnalysis

\* a result for a text of more than 2000 characters whose emotional word lies
\* beyond the cut: the analysis reports it, an analysis of the content field
\* would not
C11_Witness ==
    /\ C11_Answered
    /\ StrLen(content) > 2000
    /\ StrLen(response.body.content.value) = 2000
    /\ response.body.aiAnalysis.emotionalLanguage # <<>>
    /\ generateAnalysis(response.body.content.value, title).emotionalLanguage = <<>>

-----------------------------------------------------------------------------
(* C12: three short sentences without quotes, numerals or attribution *)

\* the sentences of the body: its non-blank pieces between . ! and ?
C12_Sentences == ga_sentences(content)

C12_BodyIncludes(needle) == Includes(toLowerCase(content), needle)

\* a body of 3 short sentences with no quote character, no numeral and none
\* of the attribution markers of either analyzer
C12_Body ==
    /\ Len(C12_Sentences) = 3
    /\ \A i \in DOMAIN C12_Sentences : StrLen(trim(C12_Sentences[i])) <= 100
    /\ ~C12_BodyIncludes(<<"'">>) /\ ~C12_BodyIncludes(<<"\"">>)
    /\ ~HasDigit(content)
    /\ ~C12_BodyIncludes(<<"source">>)
    /\ ~C12_BodyIncludes(<<"according", " ", "to">>)
    /\ ~C12_BodyIncludes(<<"study">>)
    /\ ~C12_BodyIncludes(<<"research">>)

C12_Flagged(flag) ==
    \E i \in DOMAIN analysis.redFlags : analysis.redFlags[i] = flag

C12_BothFlags ==
    IF endpoint = "scrape"
    THEN /\ C12_Flagged("Very short article with limited information")
         /\ C12_Flagged("Lack of cited sources or references")
    ELSE /\ C12_Flagged("Article appears unusually short for the topic")
         /\ C12_Flagged("Limited source attribution - claims not well-supported")

\* the base score, and what the score loses to the short-article flag and to
\* the missing-attribution flag: 10 for each red flag in generateAnalysis, 15
\* for fewer than 10 sentences and nothing for missing attribution in
\* analyzeArticle
C12_Base == IF endpoint = "scrape" THEN 70 ELSE 50
C12_Penalties == IF endpoint = "scrape" THEN 10 + 10 ELSE 15 + 0

\* what the hedging terms of the body add to the score
C12_HedgingBonus ==
    IF endpoint = "scrape" THEN 3 * Len(ga_foundHedging(content)) ELSE 0

\* C12 as stated: for every body of 3 short sentences with no quotes, no
\* numerals and no attribution marker, redFlags has the short-article flag
\* and the missing-attribution flag and credibilityScore is at most the base
\* score minus the penalties of those two flags, whatever else the body
\* contains.
C12_AsStated ==
    (pc = "returned" /\ C12_Body) =>
        /\ C12_BothFlags
        /\ analysis.credibilityScore <= C12_Base - C12_Penalties

\* C12: for every body of 3 short sentences with no quotes, no numerals and
\* no attribution marker, redFlags has the short-article flag and the
\* missing-attribution flag and credibilityScore is at most the base score
\* minus the penalties of those two flags plus the hedging bonus: 3 for each
\* hedging phrase found by generateAnalysis, nothing in analyzeArticle.
C12_ScoreBound ==
    (pc = "returned" /\ C12_Body) =>
        /\ C12_BothFlags
        /\ analysis.credibilityScore <= C12_Base - C12_Penalties + C12_HedgingBonus

\* generateAnalysis has scored a body of 3 such sentences with hedging terms
\* above 70 - 20
C12_Witness ==
    /\ pc = "returned" /\ endpoint = "scrape"
    /\ C12_Body
    /\ Len(ga_foundHedging(content)) > 0
    /\ analysis.credibilityScore > C12_Base - C12_Penalties

-----------------------------------------------------------------------------
(* C13: the page component *)

\* a request is in flight: a call of handleAnalyze waits on its fetch or on
\* the body of the response
C13_InFlight == Len(handlers)

\* C13: in the page component, whatever the Analyze clicks, request outcomes
\* and Try Again clicks: the analysis and the error are never both non-null,
\* both are null while a request is in flight, at most one request is in
\* flight, and isAnalyzing is false whenever every request sent has had its
\* outcome.
C13_PageState ==
    endpoint = "page" =>
        /\ ~(pageAnalysis # Null /\ error # Null)
        /\ C13_InFlight > 0 => (pageAnalysis = Null /\ error = Null)
        /\ C13_InFlight <= 1
        /\ clicks = outcomes + C13_InFlight
        /\ C13_InFlight = 0 => ~isAnalyzing
        /\ C13_InFlight > 0 => isAnalyzing

\* the second request sent has ended with a report on the page
C13_Witness ==
    /\ endpoint = "page"
    /\ outcomes = 2 /\ C13_InFlight = 0
    /\ pageAnalysis # Null /\ error = Null /\ ~isAnalyzing

=============================================================================
